---- MODULE Spec2Model ----
(***************************************************************************)
(* Model of the shiori (trip booklet) server.                              *)
(*                                                                         *)
(*  - the document request handler app.post('/') of src/src/index.js with  *)
(*    the render admission control withPdfSlot, the cover race             *)
(*    generateCoverImageWithTimeout and the external calls it awaits;      *)
(*  - the itinerary part of generateHtmlFromJson of src/src/generateHtml.js *)
(*                                                                         *)
(* JavaScript runs the handlers of all requests on one thread: a handler    *)
(* runs uninterrupted from one await to the next.  Each action below is one *)
(* such synchronous segment.                                                *)
(***************************************************************************)
EXTENDS Integers, Sequences, FiniteSets, TLC

\* ------------------------------------------------------------------------
\* Bounds of the model
\* ------------------------------------------------------------------------
\* number of document requests that can be in progress at the same time
NumReqs == 3

\* largest number of entries of json.images
MaxImages == 3

\* largest number of entries of trip.members
MaxMembers == 3

\* largest number of entries of trip.allowance
MaxCategories == 2
\* requests whose cover generator is followed after its timer has won
NumLateCovers == 1

\* ------------------------------------------------------------------------
\* Program constants
\* ------------------------------------------------------------------------
PDF_MAX_CONCURRENCY == 2

Reqs == 1..NumReqs

\* the stages of one request, in the order the handler awaits them
StageOrder ==
    << "itinerary-inferred", "cover-attempted", "narrative-generated",
       "document-built", "render-admitted", "render-complete" >>

VARIABLES
    pdfInFlight,  \* index.js: let pdfInFlight
    pc,           \* per request: the await the handler is suspended at
    photo,        \* per request: requestFiles.images[0] is there (once read)
    tripAt,       \* per request: where detailObj holds the trip (once read)
    gen,          \* per request: state of the generateCoverImage promise
    winner,       \* per request: which promise settled Promise.race first
    cover,        \* per request: const coverImage
    htmlCover,    \* per request: cover area of const generatedHtml
    stages,       \* per request: the stages completed so far, in order
    failed,       \* per request: the operation that threw or rejected
    responses,    \* per request: what was sent on res, in order
    page,         \* per request: the page of htmlToPdf and the call pending on it
    json,         \* generateHtmlFromJson: its argument json
    callArgs,     \* generateHtmlFromJson: the arguments after json
    doc,          \* generateHtmlFromJson: the parts of the markup it returns
    docPc,        \* generateHtmlFromJson: "called" or "returned"
    getCall       \* one call of get: its arguments and what it returned

\* the state of the request handlers
orchVars == << pdfInFlight, pc, photo, tripAt, gen, winner, cover, htmlCover,
               stages, failed, responses, page >>

\* the state of one call of generateHtmlFromJson
docVars == << json, callArgs, doc, docPc, getCall >>

vars == << pdfInFlight, pc, photo, tripAt, gen, winner, cover, htmlCover,
           stages, failed, responses, page, json, callArgs, doc, docPc,
           getCall >>

\* ------------------------------------------------------------------------
\* generateHtml.js: the cover area of the markup
\* ------------------------------------------------------------------------
\* variant of CoverArea: the test written as `base64Image !== undefined`,
\* which lets the null of the timeout through
CoverAreaNotUndefined(base64Image) ==
    IF base64Image = "unset" THEN "" ELSE "img"

\* ${base64Image ? `<img ...>` : ''}; null (the timeout value) is falsy
CoverArea(base64Image) ==
    IF base64Image = "image" THEN "img" ELSE ""

\* ------------------------------------------------------------------------
\* JavaScript values, as far as generateHtmlFromJson tells them apart
\* ------------------------------------------------------------------------
Undefined == [t |-> "undefined"]
Null == [t |-> "null"]
Str(s) == [t |-> "string", s |-> s]
Num(n) == [t |-> "number", n |-> n]
\* an object: props maps its own keys to their values
Obj(props) == [t |-> "object", props |-> props]
\* an array
Arr(items) == [t |-> "array", items |-> items]

EmptyObject == [k \in {} |-> Undefined]

\* ToBoolean: what `v || x`, `!v` and `v ? a : b` test
Truthy(v) ==
    CASE v.t = "undefined" -> FALSE
      [] v.t = "null"      -> FALSE
      [] v.t = "string"    -> v.s # ""
      [] v.t = "number"    -> v.n # 0
      [] v.t = "object"    -> TRUE
      [] v.t = "array"     -> TRUE
      [] v.t = "NaN"       -> FALSE

\* v is null or undefined: what `??` tests
Nullish(v) == v.t \in {"undefined", "null"}

\* obj[key] on an object given by its properties
Prop(props, key) ==
    IF key \in DOMAIN props THEN props[key] ELSE Undefined

\* the field names read from trip data
FieldNames ==
    { "clientId", "placeName", "dateTime", "startDate", "endDate", "hotels",
      "purpose", "members", "name", "episode", "role", "allowance", "title",
      "total", "details", "amount" }

\* key.replace(/!$/, ''): the key without one trailing '!'
StripMarker(key) ==
    IF \E f \in FieldNames : key = f \o "!"
    THEN CHOOSE f \in FieldNames : key = f \o "!"
    ELSE key

\* variant of get: the marked key is tried before the exact key
getMarkedFirst(props, key) ==
    IF ~Nullish(Prop(props, key \o "!")) THEN Prop(props, key \o "!")
    ELSE IF ~Nullish(Prop(props, key)) THEN Prop(props, key)
    ELSE Prop(props, StripMarker(key))

\* const get = (obj, key) => obj[key] ?? obj[key + '!'] ?? obj[key.replace(/!$/, '')]
get(props, key) ==
    IF ~Nullish(Prop(props, key)) THEN Prop(props, key)
    ELSE IF ~Nullish(Prop(props, key \o "!")) THEN Prop(props, key \o "!")
    ELSE Prop(props, StripMarker(key))

\* no call of get is looked at
NoGetCall == [pc |-> "idle"]

\* String.prototype.trim on the place names and role tags of the model
Trim(s) ==
    CASE s = " "        -> ""
      [] s = " Nara "   -> "Nara"
      [] s = " camera " -> "camera"
      [] OTHER          -> s

\* the own properties a property read finds on a value that is not null or
\* undefined: those of an object, none of the keys of trip data on a string,
\* a number or an array
PropsOf(v) == IF v.t = "object" THEN v.props ELSE EmptyObject

\* the result of Number(v) that is not a number
NaN == [t |-> "NaN"]

\* the strings of the model that Number() reads as a number
NumericStrings ==
    [ s \in { "1200", " 300 ", "" } |->
        CASE s = "1200"  -> 1200
          [] s = " 300 " -> 300
          [] s = ""      -> 0 ]

\* Number(v) on a number, a string, null or undefined
ToNumber(v) ==
    CASE v.t = "number"    -> v
      [] v.t = "string"    -> IF v.s \in DOMAIN NumericStrings
                              THEN Num(NumericStrings[v.s]) ELSE NaN
      [] v.t = "null"      -> Num(0)
      [] v.t = "undefined" -> NaN

\* Number(v) || 0
NumberOrZero(v) == IF Truthy(ToNumber(v)) THEN ToNumber(v).n ELSE 0

\* a piece of markup: the empty string, or a string made of the given parts
NoMarkup == [empty |-> TRUE]

\* filter(Boolean) on pieces of markup, and `piece ? ... : ''`
NonEmpty(piece) == ~piece.empty

\* ------------------------------------------------------------------------
\* generateHtml.js: dates of the itinerary (Asia/Tokyo)
\* ------------------------------------------------------------------------
\* new Date(rawDt).getTime() for the dateTime strings of the model, in
\* minutes since the epoch (every string of the model is on a whole minute);
\* any other string gives an invalid date
ValidDates ==
    [ s \in { "2025-05-31T14:00:00Z", "2025-05-31T00:00:00Z",
              "2025-05-31T15:30:00Z", "2024-12-31T15:00:00Z",
              "2024-12-31T14:59:00Z" } |->
        CASE s = "2025-05-31T14:00:00Z" -> 29145000
          [] s = "2025-05-31T00:00:00Z" -> 29144160
          [] s = "2025-05-31T15:30:00Z" -> 29145090
          [] s = "2024-12-31T15:00:00Z" -> 28927620
          [] s = "2024-12-31T14:59:00Z" -> 28927619 ]

\* the offset of Asia/Tokyo and the length of a day, in minutes
JstOffset == 540
MinutesPerDay == 1440

\* the day of the instant ts in Asia/Tokyo, counted from 1970-01-01
JstDay(ts) == (ts + JstOffset) \div MinutesPerDay

\* the minute of that day
JstMinute(ts) == (ts + JstOffset) % MinutesPerDay

\* the Gregorian date of a day counted from 1970-01-01
CivilFromDays(days) ==
    LET z   == days + 719468
        era == z \div 146097
        doe == z - era * 146097
        yoe == (doe - doe \div 1460 + doe \div 36524 - doe \div 146096) \div 365
        doy == doe - (365 * yoe + yoe \div 4 - yoe \div 100)
        mp  == (5 * doy + 2) \div 153
        d   == doy - (153 * mp + 2) \div 5 + 1
        m   == IF mp < 10 THEN mp + 3 ELSE mp - 9
        y   == yoe + era * 400 + (IF m <= 2 THEN 1 ELSE 0)
    IN  [year |-> y, month |-> m, day |-> d]

DigitChars == << "0", "1", "2", "3", "4", "5", "6", "7", "8", "9" >>

\* a number written in decimal, as its sequence of characters
RECURSIVE Digits(_)
Digits(n) ==
    IF n < 10 THEN << DigitChars[n + 1] >>
    ELSE Append(Digits(n \div 10), DigitChars[(n % 10) + 1])

\* month: '2-digit', day: '2-digit', hour: '2-digit', minute: '2-digit'
Pad2(n) == << DigitChars[(n \div 10) + 1], DigitChars[(n % 10) + 1] >>

\* ymd = `${dParts.year}/${dParts.month}/${dParts.day}`
FormatYmd(ts) ==
    LET c == CivilFromDays(JstDay(ts))
    IN  Digits(c.year) \o << "/" >> \o Pad2(c.month) \o << "/" >> \o Pad2(c.day)

\* hm = timeFmt.format(dt)
FormatHm(ts) ==
    Pad2(JstMinute(ts) \div 60) \o << ":" >> \o Pad2(JstMinute(ts) % 60)

\* Number(a.replaceAll('/', '')) on a key made of digits and slashes
RECURSIVE DecimalValue(_)
DecimalValue(chars) ==
    IF chars = << >> THEN 0
    ELSE 10 * DecimalValue(SubSeq(chars, 1, Len(chars) - 1))
         + (CHOOSE d \in 0..9 : DigitChars[d + 1] = chars[Len(chars)])

KeyNumber(key) == DecimalValue(SelectSeq(key, LAMBDA c : c # "/"))

\* the key of the events without a day; stands for the string '日付不明'
UnknownDay == << "hizuke-fumei" >>

\* the place name of an event without one; stands for '（場所不明）'
PlaceUnknown == "(basho-fumei)"

\* hm of an event without a time; stands for '—'
NoTime == << "-" >>

\* ------------------------------------------------------------------------
\* generateHtml.js: the itinerary (the events of json.images by day)
\* ------------------------------------------------------------------------
\* const m = imagesMeta[i] || {}
EntryProps(entry) ==
    IF Truthy(entry) /\ entry.t = "object" THEN entry.props ELSE EmptyObject

\* typeof rawDt === 'string' and new Date(rawDt) is a valid date
HasTime(rawDt) ==
    /\ rawDt.t = "string"
    /\ rawDt.s \in DOMAIN ValidDates

\* variant of HasPlace: any truthy place name counts as a place
HasPlaceTruthy(rawPlaceName) == Truthy(rawPlaceName)

\* typeof rawPlaceName === 'string' && rawPlaceName.trim() !== ''
HasPlace(rawPlaceName) ==
    /\ rawPlaceName.t = "string"
    /\ Trim(rawPlaceName.s) # ""

\* the body of the loop over imagesMeta, up to the test before `continue`
IsKept(entry) ==
    LET m == EntryProps(entry)
    IN  HasTime(get(m, "dateTime")) \/ HasPlace(get(m, "placeName"))

\* the object pushed to events for imagesMeta[i]; ymd is << >> and ts is
\* Null where the code has null
EventOf(entry, i) ==
    LET m            == EntryProps(entry)
        rawPlaceName == get(m, "placeName")
        rawDt        == get(m, "dateTime")
        dated        == HasTime(rawDt)
        time         == IF dated THEN ValidDates[rawDt.s] ELSE 0
    IN  [ clientId    |-> get(m, "clientId"),
          placeName   |-> IF Truthy(rawPlaceName) THEN rawPlaceName
                          ELSE Str(PlaceUnknown),
          ymd         |-> IF dated THEN FormatYmd(time) ELSE << >>,
          hm          |-> IF dated THEN FormatHm(time) ELSE NoTime,
          ts          |-> IF dated THEN Num(time) ELSE Null,
          uploadIndex |-> i ]

\* events after the loop; i is the index of the code, from 0
RECURSIVE EventsFrom(_, _)
EventsFrom(imagesMeta, n) ==
    IF n = 0 THEN << >>
    ELSE LET rest == EventsFrom(imagesMeta, n - 1)
         IN  IF IsKept(imagesMeta[n])
             THEN Append(rest, EventOf(imagesMeta[n], n - 1))
             ELSE rest

\* variant of GroupKey: every event goes under '日付不明'
GroupKeyAlwaysUnknown(ev) == UnknownDay

\* const key = ev.ymd || '日付不明'
GroupKey(ev) == IF ev.ymd = << >> THEN UnknownDay ELSE ev.ymd

\* Array.from(groups.keys()): the keys in the order of their first event
RECURSIVE KeysOf(_)
KeysOf(events) ==
    IF events = << >> THEN << >>
    ELSE LET front == KeysOf(SubSeq(events, 1, Len(events) - 1))
             key   == GroupKey(events[Len(events)])
         IN  IF \E j \in 1..Len(front) : front[j] = key
             THEN front ELSE Append(front, key)

\* groups.get(k): the events of a key in the order they were pushed
GroupOf(events, k) == SelectSeq(events, LAMBDA ev : GroupKey(ev) = k)

\* variant of KeyCompare without the two tests for '日付不明': Number of that
\* key is NaN, and a NaN result of a comparator counts as 0
KeyCompareNoUnknownRule(a, b) ==
    IF a = UnknownDay \/ b = UnknownDay THEN 0
    ELSE KeyNumber(a) - KeyNumber(b)

\* the comparator of keys.sort
KeyCompare(a, b) ==
    IF a = UnknownDay THEN 1
    ELSE IF b = UnknownDay THEN -1
    ELSE KeyNumber(a) - KeyNumber(b)

\* keys.sort(...): Array.prototype.sort is stable
RECURSIVE InsertKey(_, _), SortKeys(_)
InsertKey(sorted, k) ==
    IF sorted = << >> THEN << k >>
    ELSE IF KeyCompare(sorted[Len(sorted)], k) <= 0 THEN Append(sorted, k)
    ELSE Append(InsertKey(SubSeq(sorted, 1, Len(sorted) - 1), k),
                sorted[Len(sorted)])

SortKeys(keys) ==
    IF keys = << >> THEN << >>
    ELSE InsertKey(SortKeys(SubSeq(keys, 1, Len(keys) - 1)), keys[Len(keys)])

\* the comparator of groups.get(k).sort; x.ts ?? Infinity
EventCompare(x, y) ==
    IF x.ts.t = "null" /\ y.ts.t = "null" THEN x.uploadIndex - y.uploadIndex
    ELSE IF x.ts.t = "null" THEN 1
    ELSE IF y.ts.t = "null" THEN -1
    ELSE IF x.ts.n # y.ts.n THEN x.ts.n - y.ts.n
    ELSE x.uploadIndex - y.uploadIndex

\* groups.get(k).sort(...)
RECURSIVE InsertEvent(_, _), SortEvents(_)
InsertEvent(sorted, ev) ==
    IF sorted = << >> THEN << ev >>
    ELSE IF EventCompare(sorted[Len(sorted)], ev) <= 0 THEN Append(sorted, ev)
    ELSE Append(InsertEvent(SubSeq(sorted, 1, Len(sorted) - 1), ev),
                sorted[Len(sorted)])

SortEvents(list) ==
    IF list = << >> THEN << >>
    ELSE InsertEvent(SortEvents(SubSeq(list, 1, Len(list) - 1)), list[Len(list)])

\* the day groups written into itineraryHtml: one <h3> with its <ul> per
\* key, in the order of the sorted keys, groups without events skipped
Itinerary(imagesMeta) ==
    LET events == EventsFrom(imagesMeta, Len(imagesMeta))
        keys   == SortKeys(KeysOf(events))
        all    == [ j \in 1..Len(keys) |->
                      [ key |-> keys[j],
                        list |-> SortEvents(GroupOf(events, keys[j])) ] ]
    IN  SelectSeq(all, LAMBDA g : g.list # << >>)

\* const imagesMeta = Array.isArray(json?.images) ? json.images : []
ImagesMeta(input) ==
    IF Prop(input, "images").t = "array"
    THEN Prop(input, "images").items ELSE << >>

\* ------------------------------------------------------------------------
\* generateHtml.js: the trip and its budget
\* ------------------------------------------------------------------------
\* const trip = json && typeof json === 'object' && json.trip ? json.trip : json
\* (json is an object in every call of the model, given by its properties)
TripOf(input) ==
    IF Truthy(Prop(input, "trip")) THEN PropsOf(Prop(input, "trip")) ELSE input

\* variant of DetailKept: a line is shown as soon as it has a name
DetailKeptNameOnly(dname, damount) == Truthy(dname)

\* the negation of `!dname || damount == null`
DetailKept(dname, damount) == Truthy(dname) /\ ~Nullish(damount)

\* the callback of detailsArr.map: `${dname}…… ${damount}円` or ''
DetailLine(d) ==
    LET dname   == get(PropsOf(d), "name")
        damount == get(PropsOf(d), "amount")
    IN  IF DetailKept(dname, damount)
        THEN [empty |-> FALSE, name |-> dname, amount |-> damount]
        ELSE NoMarkup

\* details: the lines of detailsArr that are not '', to be joined by <br>;
\* no line when details is not an array
DetailsOf(detailsArr) ==
    IF detailsArr.t = "array"
    THEN SelectSeq([ i \in 1..Len(detailsArr.items) |->
                       DetailLine(detailsArr.items[i]) ], NonEmpty)
    ELSE << >>

\* variant of CategoryKept: a category is shown as soon as it has a title
CategoryKeptTitleOnly(title, totalVal) == Truthy(title)

\* the negation of `!title || totalVal == null`
CategoryKept(title, totalVal) == Truthy(title) /\ ~Nullish(totalVal)

\* the <tr> returned by the callback of allowanceArr.map for a kept category
BudgetRow(a) ==
    [ empty    |-> FALSE,
      title    |-> get(PropsOf(a), "title"),
      details  |-> DetailsOf(get(PropsOf(a), "details")),
      totalVal |-> get(PropsOf(a), "total") ]

\* budgetRows (its rows, before the join) and total after the first n
\* categories: a category that is not kept returns '' before `total +=`
\* and filter(Boolean) removes its ''
RECURSIVE BudgetFrom(_, _)
BudgetFrom(items, n) ==
    IF n = 0 THEN [rows |-> << >>, total |-> 0]
    ELSE LET before   == BudgetFrom(items, n - 1)
             title    == get(PropsOf(items[n]), "title")
             totalVal == get(PropsOf(items[n]), "total")
         IN  IF CategoryKept(title, totalVal)
             THEN [ rows  |-> Append(before.rows, BudgetRow(items[n])),
                    total |-> before.total + NumberOrZero(totalVal) ]
             ELSE before

\* let budgetRows = ''; let total = 0; if (Array.isArray(allowanceArr)) ...
Budget(trip) ==
    LET allowanceArr == get(trip, "allowance")
    IN  IF allowanceArr.t = "array"
        THEN BudgetFrom(allowanceArr.items, Len(allowanceArr.items))
        ELSE [rows |-> << >>, total |-> 0]

\* ------------------------------------------------------------------------
\* generateHtml.js: the roster
\* ------------------------------------------------------------------------
\* the labels of the role column; they stand for '班長' and '班員'
Leader == "hancho"
Member == "han-in"

\* const roleMap = { leader: '班長', camera: 'カメラ係', ... }: its own keys
roleMap ==
    [ leader      |-> Leader,
      camera      |-> "camera-gakari",
      accountant  |-> "osaifu-gakari",
      navigator   |-> "annai-gakari",
      driver      |-> "unten-gakari",
      reservation |-> "yoyaku-gakari" ]

\* roleMap is an object literal: a key it does not own is looked up on
\* Object.prototype, whose properties are functions (or, for __proto__, an
\* object)
ObjectPrototypeKeys ==
    { "constructor", "toString", "toLocaleString", "valueOf", "hasOwnProperty",
      "isPrototypeOf", "propertyIsEnumerable", "__proto__" }

\* the value of such a property
Inherited(key) ==
    [t |-> "object", props |-> EmptyObject, inheritedKey |-> key]

\* roleMap[key]
RoleMapLookup(key) ==
    IF key \in DOMAIN roleMap THEN Str(roleMap[key])
    ELSE IF key \in ObjectPrototypeKeys THEN Inherited(key)
    ELSE Undefined

\* String(v) on the role tags of the model, which are strings
StringOf(v) == v.s

\* the callback of membersArr.map: null for a member without a name
Processed(m) ==
    LET name == get(PropsOf(m), "name")
    IN  IF ~Truthy(name) THEN Null
        ELSE [ t       |-> "object",
               name    |-> name,
               episode |-> get(PropsOf(m), "episode"),
               rawRole |-> get(PropsOf(m), "role") ]

\* the callback of processed.some
ProvidesRole(p) ==
    /\ ~Nullish(p.rawRole)
    /\ Trim(StringOf(p.rawRole)) # ""

\* variant of RoleByPosition: nobody is the leader by position
RoleByPositionNobody(idx) == Str(Member)

\* roleJp = idx === 0 ? '班長' : '班員'
RoleByPosition(idx) == IF idx = 0 THEN Str(Leader) ELSE Str(Member)

\* let roleJp = '班員'; const key = String(p.rawRole || '').trim();
\* if (key) roleJp = roleMap[key] || '班員'
RoleByTag(rawRole) ==
    LET key == Trim(StringOf(IF Truthy(rawRole) THEN rawRole ELSE Str("")))
    IN  IF key = "" THEN Str(Member)
        ELSE IF Truthy(RoleMapLookup(key)) THEN RoleMapLookup(key)
        ELSE Str(Member)

\* membersRows (its rows, before the join); idx is the index of the code,
\* from 0, in processed
MembersRows(trip) ==
    LET membersArr == get(trip, "members")
        mapped     == [ i \in 1..Len(membersArr.items) |->
                          Processed(membersArr.items[i]) ]
        processed  == SelectSeq(mapped, Truthy)
        anyProvidedRole ==
            \E i \in 1..Len(processed) : ProvidesRole(processed[i])
    IN  IF membersArr.t = "array"
        THEN [ i \in 1..Len(processed) |->
                 [ empty   |-> FALSE,
                   name    |-> processed[i].name,
                   roleJp  |-> IF anyProvidedRole
                               THEN RoleByTag(processed[i].rawRole)
                               ELSE RoleByPosition(i - 1),
                   episode |-> IF Truthy(processed[i].episode)
                               THEN processed[i].episode ELSE Str("") ] ]
        ELSE << >>

\* ------------------------------------------------------------------------
\* generateHtml.js: the date range, the hotels and the sections
\* ------------------------------------------------------------------------
\* new Date(v).getTime() for the date strings of the model (a date without
\* a time is midnight UTC), in minutes since the epoch; any other string
\* gives an invalid date
TripDates ==
    [ s \in { "2025-05-10", "2025-05-12", "2025-05-31", "2025-06-01",
              "2026-05-12" } |->
        CASE s = "2025-05-10" -> 29113920
          [] s = "2025-05-12" -> 29116800
          [] s = "2025-05-31" -> 29144160
          [] s = "2025-06-01" -> 29145600
          [] s = "2026-05-12" -> 29642400 ]

\* toValidDate on a string, null or undefined: the instant, or null
toValidDate(v) ==
    IF ~Truthy(v) THEN Null
    ELSE IF v.t = "string" /\ v.s \in DOMAIN TripDates THEN Num(TripDates[v.s])
    ELSE Null

WeekdayNames == << "Sun", "Mon", "Tue", "Wed", "Thu", "Fri", "Sat" >>

\* getJpCalParts: the parts of the instant in Asia/Tokyo in the Japanese
\* calendar.  Every date of the model is in the era Reiwa, whose year 1 is
\* 2019; 1970-01-01 was a Thursday.
getJpCalParts(ts) ==
    LET c == CivilFromDays(JstDay(ts))
    IN  [ era     |-> "Reiwa",
          year    |-> c.year - 2018,
          month   |-> c.month,
          day     |-> c.day,
          weekday |-> WeekdayNames[((JstDay(ts) + 4) % 7) + 1] ]

\* sp.month === ep.month
SameMonth(sp, ep) == sp.month = ep.month

\* formatRange: '' or the start with, for two dates, the end after it; the
\* end is `${ep.day}日(${ep.weekday})` or
\* `${ep.month}月${ep.day}日(${ep.weekday})`
formatRange(startRaw, endRaw) ==
    LET sd == toValidDate(startRaw)
        ed == toValidDate(endRaw)
        sp == getJpCalParts(sd.n)
        ep == getJpCalParts(ed.n)
    IN  IF ~Truthy(sd) /\ ~Truthy(ed) THEN NoMarkup
        ELSE IF Truthy(sd) /\ Truthy(ed)
        THEN [ empty  |-> FALSE,
               start  |-> sp,
               finish |-> IF SameMonth(sp, ep)
                          THEN [ shown |-> "day", day |-> ep.day,
                                 weekday |-> ep.weekday ]
                          ELSE [ shown |-> "month-day", month |-> ep.month,
                                 day |-> ep.day, weekday |-> ep.weekday ] ]
        ELSE [ empty  |-> FALSE,
               start  |-> IF Truthy(sd) THEN sp ELSE ep,
               finish |-> [shown |-> "none"] ]

\* what an element adds to Array.prototype.join: nothing for null or
\* undefined
JoinPart(e) == IF Nullish(e) THEN "" ELSE e.s

\* const hotels = Array.isArray(hotelsArr) ? hotelsArr.join(' / ') : undefined
\* (the join of two or more elements has a separator in it)
Hotels(trip) ==
    LET hotelsArr == get(trip, "hotels")
    IN  IF hotelsArr.t # "array" THEN NoMarkup
        ELSE IF Len(hotelsArr.items) = 0 THEN NoMarkup
        ELSE IF Len(hotelsArr.items) = 1 /\ JoinPart(hotelsArr.items[1]) = ""
        THEN NoMarkup
        ELSE [empty |-> FALSE, items |-> hotelsArr.items]

\* the <h2> headings of the model; they stand for '日程', '班員名簿',
\* '旅の目的', '宿泊先', '予算・使用金額' and '行程'
HeadingSchedule == "nittei"
HeadingRoster == "hanin-meibo"
HeadingPurpose == "tabi-no-mokuteki"
HeadingHotels == "shukuhakusaki"
HeadingBudget == "yosan-shiyo-kingaku"
HeadingItinerary == "kotei"

\* the headings of the template, in document order: both headings of the
\* first section stand inside `scheduleText || membersRows ? ... : ''`
Headings(scheduleText, membersRows, purpose, hotels, budgetRows, itinerary) ==
    (IF NonEmpty(scheduleText) \/ membersRows # << >>
     THEN << HeadingSchedule, HeadingRoster >> ELSE << >>)
    \o (IF Truthy(purpose) THEN << HeadingPurpose >> ELSE << >>)
    \o (IF NonEmpty(hotels) THEN << HeadingHotels >> ELSE << >>)
    \o (IF budgetRows # << >> THEN << HeadingBudget >> ELSE << >>)
    \o (IF itinerary # << >> THEN << HeadingItinerary >> ELSE << >>)

\* arr is an array with a null or undefined element
HasNullish(arr) ==
    /\ arr.t = "array"
    /\ \E i \in 1..Len(arr.items) : Nullish(arr.items[i])

\* the call throws a TypeError: get(m, 'name'), get(a, 'title') and
\* get(d, 'name') read obj[key] on the element itself, and the details of a
\* category are mapped before its title and total are tested
Throws(input) ==
    LET membersArr   == get(TripOf(input), "members")
        allowanceArr == get(TripOf(input), "allowance")
    IN  \/ HasNullish(membersArr)
        \/ HasNullish(allowanceArr)
        \/ /\ allowanceArr.t = "array"
           /\ \E i \in 1..Len(allowanceArr.items) :
                 HasNullish(get(PropsOf(allowanceArr.items[i]), "details"))

\* the parts of the markup generateHtmlFromJson(json, base64Image) returns
Document(input, base64Image) ==
    LET trip         == TripOf(input)
        scheduleText == formatRange(get(trip, "startDate"), get(trip, "endDate"))
        hotels       == Hotels(trip)
        purpose      == get(trip, "purpose")
        membersRows  == MembersRows(trip)
        budget       == Budget(trip)
        itinerary    == Itinerary(ImagesMeta(input))
    IN  [ cover        |-> CoverArea(base64Image),
          scheduleText |-> scheduleText,
          hotels       |-> hotels,
          purpose      |-> purpose,
          membersRows  |-> membersRows,
          budgetRows   |-> budget.rows,
          total        |-> budget.total,
          itinerary    |-> itinerary,
          headings     |-> Headings(scheduleText, membersRows, purpose, hotels,
                                    budget.rows, itinerary) ]

\* generateHtmlFromJson(detailObj, coverImage, intineraryData, impressionText)
\* of the handler: the function has the two parameters (json, base64Image),
\* and JavaScript drops the arguments beyond the parameter list
CallGenerateHtml(detailObj, coverImage, intineraryData, impressionText) ==
    Document(detailObj, coverImage)

\* ------------------------------------------------------------------------
\* index.js: withPdfSlot
\* ------------------------------------------------------------------------
\* variant of SlotFull: the loop test written with > instead of >=
SlotFullOffByOne == pdfInFlight > PDF_MAX_CONCURRENCY

\* the condition of `while (pdfInFlight >= PDF_MAX_CONCURRENCY)`
SlotFull == pdfInFlight >= PDF_MAX_CONCURRENCY

\* withPdfSlot from its loop test on: either `await waitShort()` or
\* `pdfInFlight++` and the call of task(), with no await in between.
\* done: the stages of r completed when withPdfSlot is entered
TryAdmit(r, done) ==
    IF SlotFull
    THEN /\ pc' = [pc EXCEPT ![r] = "waiting"]
         /\ stages' = [stages EXCEPT ![r] = done]
         /\ UNCHANGED pdfInFlight
    ELSE /\ pdfInFlight' = pdfInFlight + 1
         /\ pc' = [pc EXCEPT ![r] = "rendering"]
         /\ stages' = [stages EXCEPT ![r] = Append(done, "render-admitted")]

Range(s) == { s[i] : i \in DOMAIN s }

\* the catch of the handler: res.status(500).send(...)
SendError(r, stage) ==
    /\ failed' = [failed EXCEPT ![r] = stage]
    /\ responses' = [responses EXCEPT ![r] = Append(@, "error")]

\* the arguments after json of a call that is not looked at more closely
DefaultCallArgs ==
    [base64Image |-> "null", intineraryData |-> "days-A", impressionText |-> "text-A"]

\* ------------------------------------------------------------------------
\* Initial state: no request in progress
\* ------------------------------------------------------------------------
OrchInit ==
    /\ pdfInFlight = 0
    /\ pc = [r \in Reqs |-> "idle"]
    /\ photo = [r \in Reqs |-> FALSE]
    /\ tripAt = [r \in Reqs |-> "unread"]
    /\ gen = [r \in Reqs |-> "idle"]
    /\ winner = [r \in Reqs |-> "none"]
    /\ cover = [r \in Reqs |-> "unset"]
    /\ htmlCover = [r \in Reqs |-> "unbuilt"]
    /\ stages = [r \in Reqs |-> << >>]
    /\ failed = [r \in Reqs |-> "none"]
    /\ responses = [r \in Reqs |-> << >>]
    /\ page = [r \in Reqs |-> "none"]

\* no call of generateHtmlFromJson is looked at
Init ==
    /\ OrchInit
    /\ json = [images |-> Undefined]
    /\ callArgs = DefaultCallArgs
    /\ doc = [itinerary |-> << >>]
    /\ docPc = "idle"
    /\ getCall = NoGetCall

\* ------------------------------------------------------------------------
\* app.post('/'): one action per synchronous segment
\* ------------------------------------------------------------------------
\* A request arrives.  JSON.parse of the detailJson part either throws (the
\* catch answers 500) or the handler calls generateIntinerary and awaits it.
Receive(r) ==
    /\ UNCHANGED << docVars, page >>
    /\ pc[r] = "idle"
    /\ \E parses \in BOOLEAN :
        IF parses
        THEN /\ pc' = [pc EXCEPT ![r] = "itinerary"]
             /\ UNCHANGED << failed, responses >>
        ELSE /\ pc' = [pc EXCEPT ![r] = "done"]
             /\ SendError(r, "parse")
    /\ UNCHANGED << pdfInFlight, photo, tripAt, gen, winner, cover, htmlCover, stages >>

\* variant of ItineraryOk: the narrative is requested before the cover
ItineraryOkNarrativeFirst(r) ==
    /\ UNCHANGED << docVars, page >>
    /\ pc[r] = "itinerary"
    /\ pc' = [pc EXCEPT ![r] = "narrative"]
    /\ stages' = [stages EXCEPT ![r] = Append(@, "itinerary-inferred")]
    /\ UNCHANGED << pdfInFlight, photo, tripAt, gen, winner, cover, htmlCover,
                    failed, responses >>

\* generateIntinerary resolved: the handler reads requestFiles.images (here
\* the model draws whether the request came with a photo) and calls
\* generateCoverImageWithTimeout(photo or null), which arms the timer and
\* calls generateCoverImage.  Without a photo Buffer.from(null) throws inside
\* the async function, so its promise is already rejected.
ItineraryOk(r) ==
    /\ UNCHANGED << docVars, page >>
    /\ pc[r] = "itinerary"
    /\ pc' = [pc EXCEPT ![r] = "cover"]
    /\ stages' = [stages EXCEPT ![r] = Append(@, "itinerary-inferred")]
    /\ \E hasPhoto \in BOOLEAN :
        /\ photo' = [photo EXCEPT ![r] = hasPhoto]
        /\ gen' = [gen EXCEPT ![r] = IF hasPhoto THEN "running" ELSE "rejected"]
    /\ UNCHANGED << pdfInFlight, tripAt, winner, cover, htmlCover,
                    failed, responses >>

\* variant of ItineraryFail: the catch answers 500 but does not end the
\* handler, so the res.send below it is reached as well
ItineraryFailFallsThrough(r) ==
    /\ UNCHANGED << docVars, page >>
    /\ pc[r] = "itinerary"
    /\ pc' = [pc EXCEPT ![r] = "done"]
    /\ failed' = [failed EXCEPT ![r] = "itinerary"]
    /\ responses' = [responses EXCEPT ![r] = @ \o << "error", "pdf" >>]
    /\ UNCHANGED << pdfInFlight, photo, tripAt, gen, winner, cover, htmlCover, stages >>

\* generateIntinerary rejected (no API key, transport error, unparseable
\* answer): the await throws into the catch
ItineraryFail(r) ==
    /\ UNCHANGED << docVars, page >>
    /\ pc[r] = "itinerary"
    /\ pc' = [pc EXCEPT ![r] = "done"]
    /\ SendError(r, "itinerary")
    /\ UNCHANGED << pdfInFlight, photo, tripAt, gen, winner, cover, htmlCover, stages >>

\* after `const coverImage = await ...`: generateImpression(detailObj) is
\* called.  It reads `detailJson.trip` and then `trip.allowance` (here the
\* model draws whether detailObj holds the trip under the key trip or is the
\* trip itself): with the trip at the top level detailJson.trip is undefined,
\* the read of trip.allowance throws before the model is asked, and the
\* promise the handler awaits is already rejected.
CoverDone(r, value, by) ==
    /\ cover' = [cover EXCEPT ![r] = value]
    /\ winner' = [winner EXCEPT ![r] = by]
    /\ stages' = [stages EXCEPT ![r] = Append(@, "cover-attempted")]
    /\ \E wrapped \in BOOLEAN :
        IF wrapped
        THEN /\ tripAt' = [tripAt EXCEPT ![r] = "wrapper"]
             /\ pc' = [pc EXCEPT ![r] = "narrative"]
             /\ UNCHANGED << failed, responses >>
        ELSE /\ tripAt' = [tripAt EXCEPT ![r] = "top"]
             /\ pc' = [pc EXCEPT ![r] = "done"]
             /\ SendError(r, "trip-read")

\* generateCoverImage resolves first: Promise.race resolves with the image
GenResolve(r) ==
    /\ UNCHANGED << docVars, page >>
    /\ pc[r] = "cover"
    /\ gen[r] = "running"
    /\ gen' = [gen EXCEPT ![r] = "resolved"]
    /\ CoverDone(r, "image", "generator")
    /\ UNCHANGED << pdfInFlight, photo, htmlCover >>

\* generateCoverImage rejects first (or was rejected from the start):
\* Promise.race rejects, generateCoverImageWithTimeout has a finally but no
\* catch, so the rejection reaches the catch of the handler
GenReject(r) ==
    /\ UNCHANGED << docVars, page >>
    /\ pc[r] = "cover"
    /\ gen[r] \in {"running", "rejected"}
    /\ gen' = [gen EXCEPT ![r] = "rejected"]
    /\ winner' = [winner EXCEPT ![r] = "generator"]
    /\ pc' = [pc EXCEPT ![r] = "done"]
    /\ SendError(r, "cover")
    /\ UNCHANGED << pdfInFlight, photo, tripAt, cover, htmlCover, stages >>

\* the timer fires first: Promise.race resolves with null; the generator is
\* left running
CoverTimeout(r) ==
    /\ UNCHANGED << docVars, page >>
    /\ pc[r] = "cover"
    /\ gen[r] = "running"
    /\ CoverDone(r, "null", "timer")
    /\ UNCHANGED << pdfInFlight, photo, gen, htmlCover >>

\* variant of LateGenSettle: the late outcome is taken over as if it had won
\* the race, a late image becoming the cover and a late rejection the
\* failure of the request
LateGenSettleAdopted(r) ==
    /\ UNCHANGED << docVars, page >>
    /\ pc[r] \notin {"idle", "itinerary", "cover"}
    /\ gen[r] = "running"
    /\ \E outcome \in {"resolved", "rejected"} :
        /\ gen' = [gen EXCEPT ![r] = outcome]
        /\ IF outcome = "resolved"
           THEN /\ cover' = [cover EXCEPT ![r] = "image"]
                /\ UNCHANGED failed
           ELSE /\ failed' = [failed EXCEPT ![r] = "cover"]
                /\ UNCHANGED cover
    /\ UNCHANGED << pdfInFlight, pc, photo, tripAt, winner, htmlCover,
                    stages, responses >>

\* the generator settles after the timer has won: the reactions that
\* Promise.race put on its promise run and find the race settled.  It changes
\* gen only, and no handler reads gen after the race, so Next leaves this
\* step out and RaceNext adds it.
LateGenSettle(r) ==
    /\ UNCHANGED << docVars, page >>
    /\ pc[r] \notin {"idle", "itinerary", "cover"}
    /\ gen[r] = "running"
    /\ \E outcome \in {"resolved", "rejected"} :
        gen' = [gen EXCEPT ![r] = outcome]
    /\ UNCHANGED << pdfInFlight, pc, photo, tripAt, winner, cover, htmlCover,
                    stages, failed, responses >>

\* generateImpression resolved: generateHtmlFromJson builds the markup (it
\* throws on entries it cannot index, such as a null detail line) and the
\* handler calls withPdfSlot, all in one synchronous segment
NarrativeOk(r) ==
    /\ UNCHANGED << docVars, page >>
    /\ pc[r] = "narrative"
    /\ \E builds \in BOOLEAN :
        IF builds
        THEN /\ htmlCover' = [htmlCover EXCEPT ![r] = CoverArea(cover[r])]
             /\ TryAdmit(r, stages[r] \o << "narrative-generated", "document-built" >>)
             /\ UNCHANGED << failed, responses >>
        ELSE /\ pc' = [pc EXCEPT ![r] = "done"]
             /\ stages' = [stages EXCEPT ![r] = Append(@, "narrative-generated")]
             /\ SendError(r, "build")
             /\ UNCHANGED << pdfInFlight, htmlCover >>
    /\ UNCHANGED << photo, tripAt, gen, winner, cover >>

\* variant of NarrativeFail: the rejection is caught and the document is
\* built without the narrative
NarrativeFailSwallowed(r) ==
    /\ UNCHANGED << docVars, page >>
    /\ pc[r] = "narrative"
    /\ failed' = [failed EXCEPT ![r] = "narrative"]
    /\ htmlCover' = [htmlCover EXCEPT ![r] = CoverArea(cover[r])]
    /\ TryAdmit(r, Append(stages[r], "document-built"))
    /\ UNCHANGED << photo, tripAt, gen, winner, cover, responses >>

\* generateImpression rejected
NarrativeFail(r) ==
    /\ UNCHANGED << docVars, page >>
    /\ pc[r] = "narrative"
    /\ pc' = [pc EXCEPT ![r] = "done"]
    /\ SendError(r, "narrative")
    /\ UNCHANGED << pdfInFlight, photo, tripAt, gen, winner, cover, htmlCover, stages >>

\* the 50 ms timer of waitShort fires: the loop test is evaluated again
Poll(r) ==
    /\ UNCHANGED << docVars, page >>
    /\ pc[r] = "waiting"
    /\ TryAdmit(r, stages[r])
    /\ UNCHANGED << photo, tripAt, gen, winner, cover, htmlCover,
                    failed, responses >>

\* the finally of withPdfSlot, entered when `await task()` returns or throws
ExitSlot(r) ==
    /\ pc[r] = "rendering"
    /\ pdfInFlight' = pdfInFlight - 1
    /\ pc' = [pc EXCEPT ![r] = "done"]

\* htmlToPdf resolved with the PDF buffer: withPdfSlot releases the slot and
\* returns it, and the handler sends it.  (The continuations of withPdfSlot
\* and of the handler are chained microtasks: no timer or I/O callback runs
\* between them.)
RenderOk(r) ==
    /\ UNCHANGED << docVars, page >>
    /\ ExitSlot(r)
    /\ stages' = [stages EXCEPT ![r] = Append(@, "render-complete")]
    /\ responses' = [responses EXCEPT ![r] = Append(@, "pdf")]
    /\ UNCHANGED << photo, tripAt, gen, winner, cover, htmlCover, failed >>

\* variant of RenderFail: withPdfSlot without its finally, so that a throwing
\* task leaves the counter as it is
RenderFailNoFinally(r) ==
    /\ UNCHANGED << docVars, page >>
    /\ pc[r] = "rendering"
    /\ pc' = [pc EXCEPT ![r] = "done"]
    /\ SendError(r, "render")
    /\ UNCHANGED << pdfInFlight, photo, tripAt, gen, winner, cover, htmlCover, stages >>

\* htmlToPdf rejected (newPage, setContent or pdf threw): withPdfSlot
\* releases the slot and rethrows into the catch of the handler
RenderFail(r) ==
    /\ UNCHANGED << docVars, page >>
    /\ ExitSlot(r)
    /\ SendError(r, "render")
    /\ UNCHANGED << photo, tripAt, gen, winner, cover, htmlCover, stages >>

\* the request is over: the next request of the stream takes its place (a
\* cover call it left running is no longer followed)
NextRequest(r) ==
    /\ UNCHANGED << docVars, page >>
    /\ pc[r] = "done"
    /\ pc' = [pc EXCEPT ![r] = "idle"]
    /\ photo' = [photo EXCEPT ![r] = FALSE]
    /\ tripAt' = [tripAt EXCEPT ![r] = "unread"]
    /\ gen' = [gen EXCEPT ![r] = "idle"]
    /\ winner' = [winner EXCEPT ![r] = "none"]
    /\ cover' = [cover EXCEPT ![r] = "unset"]
    /\ htmlCover' = [htmlCover EXCEPT ![r] = "unbuilt"]
    /\ stages' = [stages EXCEPT ![r] = << >>]
    /\ failed' = [failed EXCEPT ![r] = "none"]
    /\ responses' = [responses EXCEPT ![r] = << >>]
    /\ UNCHANGED pdfInFlight

Next ==
    \E r \in Reqs :
        \/ Receive(r)
        \/ ItineraryOk(r)
        \/ ItineraryFail(r)
        \/ GenResolve(r)
        \/ GenReject(r)
        \/ CoverTimeout(r)
        \/ NarrativeOk(r)
        \/ NarrativeFail(r)
        \/ Poll(r)
        \/ RenderOk(r)
        \/ RenderFail(r)
        \/ NextRequest(r)

Spec == Init /\ [][Next]_vars

\* the handlers together with the cover calls that lost their race
\* the requests are alike, so the late outcome is followed for the first
\* NumLateCovers of them; the generator of the others stays running
LateReqs == { r \in Reqs : r <= NumLateCovers }

RaceNext == Next \/ \E r \in LateReqs : LateGenSettle(r)

RaceSpec == Init /\ [][RaceNext]_vars

\* Every external call that is pending eventually settles and every timer
\* that is armed eventually fires; nothing obliges a client to send a request.
\* <<Poll(r)>>_vars is a poll that finds a slot: the 50 ms timer samples the
\* counter, so a slot that stays free is found, one that is free only between
\* two polls need not be.
Fairness ==
    \A r \in Reqs :
        /\ WF_vars(ItineraryOk(r) \/ ItineraryFail(r))
        /\ WF_vars(GenResolve(r) \/ GenReject(r) \/ CoverTimeout(r))
        /\ WF_vars(NarrativeOk(r) \/ NarrativeFail(r))
        /\ WF_vars(Poll(r))
        /\ WF_vars(RenderOk(r) \/ RenderFail(r))

LiveSpec == Spec /\ Fairness

\* ------------------------------------------------------------------------
\* get on its own: one call on any object of the model
\* ------------------------------------------------------------------------
\* the keys get can read when it is called for placeName or placeName!
GetKeys == { "placeName", "placeName!", "placeName!!" }

\* what a key holds when the object has it: null, a string, or the falsy 0
GetValues == { Null, Str("Kyoto"), Str("Nara"), Num(0) }

\* every object over some of the keys
GetObjects == UNION { [ks -> GetValues] : ks \in SUBSET GetKeys }

GetInit ==
    /\ OrchInit
    /\ json = [images |-> Undefined]
    /\ callArgs = DefaultCallArgs
    /\ doc = [itinerary |-> << >>]
    /\ docPc = "idle"
    /\ \E obj \in GetObjects, key \in { "placeName", "placeName!" } :
        getCall = [pc |-> "called", obj |-> obj, before |-> obj, key |-> key]

\* the arrow function evaluates its expression and returns; it has no
\* statement that writes to obj
CallGet ==
    /\ getCall.pc = "called"
    /\ getCall' = [pc |-> "returned", obj |-> getCall.obj,
                   before |-> getCall.before, key |-> getCall.key,
                   result |-> get(getCall.obj, getCall.key)]
    /\ UNCHANGED << json, callArgs, doc, docPc >>
    /\ UNCHANGED orchVars

GetNext == CallGet

GetSpec == GetInit /\ [][GetNext]_vars

\* ------------------------------------------------------------------------
\* index.js: htmlToPdf inside withPdfSlot, one action per await
\* ------------------------------------------------------------------------
\* the handler of a request has built its markup and calls
\* withPdfSlot(() => htmlToPdf(generatedHtml)); the stages before it are
\* not looked at here
EnterSlot(r) ==
    /\ UNCHANGED docVars
    /\ pc[r] = "idle"
    /\ TryAdmit(r, SubSeq(StageOrder, 1, 4))
    /\ UNCHANGED << photo, tripAt, gen, winner, cover, htmlCover,
                    failed, responses, page >>

\* `await browserPromise` and `await browser.newPage()` resolve: the page is
\* open and page.setContent is called
NewPageOk(r) ==
    /\ UNCHANGED docVars
    /\ pc[r] = "rendering"
    /\ page[r] = "none"
    /\ page' = [page EXCEPT ![r] = "loading"]
    /\ UNCHANGED << pdfInFlight, pc, photo, tripAt, gen, winner, cover,
                    htmlCover, stages, failed, responses >>

\* browserPromise or browser.newPage() rejects: there is no page, htmlToPdf
\* rejects before its try, the finally of withPdfSlot releases the slot and
\* the catch of the handler answers
NewPageFail(r) ==
    /\ UNCHANGED docVars
    /\ page[r] = "none"
    /\ ExitSlot(r)
    /\ SendError(r, "new-page")
    /\ UNCHANGED << photo, tripAt, gen, winner, cover, htmlCover, stages, page >>

\* page.setContent resolves: page.pdf is called
SetContentOk(r) ==
    /\ UNCHANGED docVars
    /\ page[r] = "loading"
    /\ page' = [page EXCEPT ![r] = "printing"]
    /\ UNCHANGED << pdfInFlight, pc, photo, tripAt, gen, winner, cover,
                    htmlCover, stages, failed, responses >>

\* variant of SetContentFail: htmlToPdf without its finally, so that the
\* error leaves the function at once
SetContentFailNoClose(r) ==
    /\ UNCHANGED docVars
    /\ page[r] = "loading"
    /\ ExitSlot(r)
    /\ SendError(r, "render")
    /\ UNCHANGED << photo, tripAt, gen, winner, cover, htmlCover, stages, page >>

\* page.setContent rejects (timeout of 30 s, navigation error): the finally
\* of htmlToPdf calls page.close() and awaits it, the error pending
SetContentFail(r) ==
    /\ UNCHANGED docVars
    /\ page[r] = "loading"
    /\ page' = [page EXCEPT ![r] = "closing"]
    /\ failed' = [failed EXCEPT ![r] = "render"]
    /\ UNCHANGED << pdfInFlight, pc, photo, tripAt, gen, winner, cover,
                    htmlCover, stages, responses >>

\* page.pdf resolves with the buffer: the finally calls page.close()
PdfOk(r) ==
    /\ UNCHANGED docVars
    /\ page[r] = "printing"
    /\ page' = [page EXCEPT ![r] = "closing"]
    /\ UNCHANGED << pdfInFlight, pc, photo, tripAt, gen, winner, cover,
                    htmlCover, stages, failed, responses >>

\* page.pdf rejects: the finally calls page.close(), the error pending
PdfFail(r) ==
    /\ UNCHANGED docVars
    /\ page[r] = "printing"
    /\ page' = [page EXCEPT ![r] = "closing"]
    /\ failed' = [failed EXCEPT ![r] = "render"]
    /\ UNCHANGED << pdfInFlight, pc, photo, tripAt, gen, winner, cover,
                    htmlCover, stages, responses >>

\* page.close() settles (a rejection is swallowed by `catch {}`; the page is
\* taken to be gone then as well): htmlToPdf returns the buffer or rethrows,
\* the finally of withPdfSlot releases the slot and the handler answers
CloseSettled(r) ==
    /\ UNCHANGED docVars
    /\ page[r] = "closing"
    /\ page' = [page EXCEPT ![r] = "none"]
    /\ ExitSlot(r)
    /\ IF failed[r] = "render"
       THEN /\ responses' = [responses EXCEPT ![r] = Append(@, "error")]
            /\ UNCHANGED stages
       ELSE /\ responses' = [responses EXCEPT ![r] = Append(@, "pdf")]
            /\ stages' = [stages EXCEPT ![r] = Append(@, "render-complete")]
    /\ UNCHANGED << photo, tripAt, gen, winner, cover, htmlCover, failed >>

RenderNext ==
    \E r \in Reqs :
        \/ EnterSlot(r)
        \/ Poll(r)
        \/ NewPageOk(r)
        \/ NewPageFail(r)
        \/ SetContentOk(r)
        \/ SetContentFail(r)
        \/ PdfOk(r)
        \/ PdfFail(r)
        \/ CloseSettled(r)
        \/ NextRequest(r)

RenderSpec == Init /\ [][RenderNext]_vars

\* ------------------------------------------------------------------------
\* generateHtmlFromJson on its own: one call on any input of the model
\* ------------------------------------------------------------------------
\* the entries of json.images of the model
ImageEntries ==
    { Null,
      Obj(EmptyObject),
      Obj("placeName" :> Str(" ")),
      Obj("placeName" :> Num(7) @@ "dateTime" :> Str("yesterday")),
      Obj("placeName" :> Null @@ "dateTime" :> Num(29145000)),
      Obj("placeName" :> Str("Kyoto")),
      Obj("placeName!" :> Str(" Nara ") @@ "dateTime" :> Str("yesterday")),
      Obj("placeName" :> Str("Kyoto") @@ "dateTime" :> Str("2025-05-31T14:00:00Z")),
      Obj("dateTime" :> Str("2025-05-31T14:00:00Z")),
      Obj("placeName" :> Str(" ") @@ "dateTime" :> Str("2025-05-31T00:00:00Z")),
      Obj("placeName" :> Str("Nara") @@ "dateTime!" :> Str("2025-05-31T15:30:00Z")),
      Obj("placeName" :> Num(7) @@ "dateTime" :> Str("2024-12-31T15:00:00Z")),
      Obj("clientId" :> Str("c1") @@ "dateTime" :> Str("2024-12-31T14:59:00Z")) }

\* values of json that differ in their images: no images field, or an array
\* of entries
JsonInputs ==
    { [images |-> Undefined] } \cup
    { [images |-> Arr(items)] :
        items \in UNION { [1..n -> ImageEntries] : n \in 0..MaxImages } }

\* the entries of trip.members of the model
MemberEntries ==
    { Null,
      Obj(EmptyObject),
      Obj("role" :> Str("driver")),
      Obj("name" :> Str("Aoi")),
      Obj("name" :> Str("Riku") @@ "role" :> Str(" ")),
      Obj("name" :> Str("Sora") @@ "role" :> Null @@ "episode" :> Str("slept")),
      Obj("name" :> Str("Hina") @@ "role" :> Str("leader")),
      Obj("name!" :> Str("Yui") @@ "role!" :> Str(" camera ")),
      Obj("name" :> Str("Ren") @@ "role" :> Str("boss")),
      Obj("name" :> Str("Kai") @@ "role" :> Str("constructor")) }

\* values of json that differ in their roster
MemberInputs ==
    { [members |-> Arr(items)] :
        items \in UNION { [1..n -> MemberEntries] : n \in 0..MaxMembers } }

\* detail lines of the model: one that is shown, and lines without a name
\* or without an amount
GoodLine == Obj("name" :> Str("cab") @@ "amount" :> Num(300))
BadLines ==
    << Obj("name" :> Str("tip")), Obj("amount" :> Num(5)),
       Obj("name" :> Str("") @@ "amount" :> Num(3)),
       Obj("name" :> Str("toll") @@ "amount" :> Null) >>

\* the entries of trip.allowance of the model
CategoryEntries ==
    { Null,
      Obj(EmptyObject),
      Obj("title" :> Str("food") @@ "total" :> Num(1200)),
      Obj("title" :> Str("gifts") @@ "total" :> Str("1200")),
      Obj("title" :> Str("misc") @@ "total" :> Str("abc")),
      Obj("title" :> Str("") @@ "total" :> Num(500)),
      Obj("title" :> Str("bus") @@ "total" :> Null),
      Obj("title!" :> Str("taxi") @@ "total!" :> Num(300)
          @@ "details" :> Arr(<< BadLines[1], GoodLine, BadLines[2] >>)),
      Obj("title" :> Str("snack") @@ "total" :> Num(0)
          @@ "details" :> Arr(BadLines)),
      Obj("title" :> Str("zoo") @@ "total" :> Num(800)
          @@ "details" :> Arr(<< GoodLine, Null >>)),
      Obj("total" :> Num(700) @@ "details" :> Arr(<< GoodLine >>)),
      Obj("title" :> Str("tea") @@ "total" :> Str(" 300 ")
          @@ "details" :> Str("none")) }

\* values of json that differ in their budget
BudgetInputs ==
    { [allowance |-> Arr(items)] :
        items \in UNION { [1..n -> CategoryEntries] : n \in 0..MaxCategories } }

\* a field that is absent or has one of the given values
Optional(key, values) == { EmptyObject } \cup { key :> v : v \in values }

\* values of json that differ in startDate and endDate
RangeInputs ==
    LET dates == { Null, Str(""), Str("soon") } \cup
                 { Str(d) : d \in DOMAIN TripDates }
    IN  { s @@ e : s \in Optional("startDate", dates),
                   e \in Optional("endDate", dates) }

\* trips that differ in which of their parts are there
SectionTrips ==
    { a @@ b @@ c @@ d @@ e :
        a \in Optional("startDate", { Str("2025-05-10") }),
        b \in Optional("members", { Arr(<< Obj("name" :> Str("Aoi")) >>) }),
        c \in Optional("purpose", { Str(""), Str("fun") }),
        d \in Optional("hotels", { Arr(<< >>), Arr(<< Str("") >>),
                                   Arr(<< Str("Inn") >>),
                                   Arr(<< Str("Inn"), Null >>) }),
        e \in Optional("allowance",
                { Arr(<< Obj("title" :> Str("food") @@ "total" :> Num(1200)) >>) }) }

\* such a trip as the top-level object of json and under the key trip, with
\* and without images
SectionInputs ==
    LET images == Optional("images", { Arr(<< Obj("placeName" :> Str("Kyoto")) >>) })
    IN  { trip @@ i : trip \in SectionTrips, i \in images } \cup
        { ("trip" :> Obj(trip)) @@ i : trip \in SectionTrips, i \in images }

\* the cover image, the answer of generateIntinerary and the answer of
\* generateImpression the handler passes after json
CallArgs ==
    [ base64Image    : { "image", "null" },
      intineraryData : { "days-A", "days-B" },
      impressionText : { "text-A", "text-B" } ]

\* values of json for the calls that differ in the other arguments
CoverInputs ==
    { [images |-> Undefined],
      "purpose" :> Str("fun") @@ "images" :> Arr(<< Obj("placeName" :> Str("Kyoto")) >>) }

\* the calls of the model
CallInputs ==
    { [json |-> j, args |-> DefaultCallArgs] :
        j \in JsonInputs \cup MemberInputs \cup BudgetInputs
              \cup RangeInputs \cup SectionInputs } \cup
    { [json |-> j, args |-> a] : j \in CoverInputs, a \in CallArgs }

HtmlInit ==
    /\ OrchInit
    /\ \E c \in CallInputs :
        /\ json = c.json
        /\ callArgs = c.args
    /\ doc = [itinerary |-> << >>]
    /\ docPc = "called"
    /\ getCall = NoGetCall

\* the call runs to its return statement, or throws on the way
GenerateHtml ==
    /\ docPc = "called"
    /\ IF Throws(json)
       THEN /\ docPc' = "threw"
            /\ UNCHANGED doc
       ELSE /\ doc' = CallGenerateHtml(json, callArgs.base64Image,
                                       callArgs.intineraryData,
                                       callArgs.impressionText)
            /\ docPc' = "returned"
    /\ UNCHANGED << json, callArgs, getCall >>
    /\ UNCHANGED orchVars

HtmlNext == GenerateHtml

HtmlSpec == HtmlInit /\ [][HtmlNext]_vars

\* ------------------------------------------------------------------------
\* Properties of the request handler
\* ------------------------------------------------------------------------
\* the requests inside the try of withPdfSlot
InRender == { r \in Reqs : pc[r] = "rendering" }

IsPrefix(s, t) ==
    /\ Len(s) <= Len(t)
    /\ \A i \in 1..Len(s) : s[i] = t[i]

\* C1: at every instant at most PDF_MAX_CONCURRENCY renders have been
\* admitted by withPdfSlot and have not left it.
C1_AtMostTwoRenders ==
    /\ Cardinality(InRender) <= PDF_MAX_CONCURRENCY
    /\ pdfInFlight <= PDF_MAX_CONCURRENCY

\* both slots are taken and a third request is held back
C1_Witness ==
    /\ Cardinality(InRender) = PDF_MAX_CONCURRENCY
    /\ \E r \in Reqs : pc[r] = "waiting"

\* C2: a request that waits for a slot is eventually admitted (given that
\* every render ends and the poll timer keeps firing, which LiveSpec states).
C2_WaiterEventuallyAdmitted ==
    \A r \in Reqs : (pc[r] = "waiting") ~> (pc[r] = "rendering")

\* C3: pdfInFlight is the number of admitted renders that have not ended;
\* in particular it is 0 when no render is in progress, and a request that
\* ends before its admission leaves it alone.
C3_CounterIsRendersInProgress ==
    pdfInFlight = Cardinality(InRender)

\* one render has failed, one request failed before its admission, and a
\* third is still rendering
C3_Witness ==
    \E r, q, s \in Reqs :
        /\ failed[r] = "render"
        /\ failed[q] = "narrative"
        /\ pc[s] = "rendering"
        /\ pdfInFlight = 1

\* C4: a failing cover generator yields "no cover" and the request goes on;
\* the cover stage alone never makes the request fail.
C4_CoverFailureTolerated ==
    \A r \in Reqs :
        (gen[r] = "rejected" /\ pc[r] \notin {"idle", "itinerary", "cover"})
            => (cover[r] = "null" /\ failed[r] # "cover")

C6_RequiredFailuresFailTheRequest ==
    \A r \in Reqs :
        /\ failed[r] \in {"itinerary", "narrative", "render"} =>
              /\ pc[r] = "done"
              /\ responses[r] = << "error" >>
        /\ failed[r] \in {"itinerary", "narrative"} =>
              /\ htmlCover[r] = "unbuilt"
              /\ "document-built" \notin Range(stages[r])
              /\ "render-admitted" \notin Range(stages[r])

\* each of the three required stages has failed in some request
C6_Witness ==
    \E r, q, s \in Reqs :
        /\ failed[r] = "itinerary"
        /\ failed[q] = "narrative"
        /\ failed[s] = "render"

\* the stages a handler suspended at an await has completed
StagesAt(r) ==
    CASE pc[r] = "idle"      -> {0}
      [] pc[r] = "itinerary" -> {0}
      [] pc[r] = "cover"     -> {1}
      [] pc[r] = "narrative" -> {2}
      [] pc[r] = "waiting"   -> {4}
      [] pc[r] = "rendering" -> {5}
      [] pc[r] = "done"      -> 0..6

\* C7: the stages of a request are completed in the order of StageOrder, the
\* handler is always at the stage after the completed ones, and a request in
\* which a stage failed is over.
C7_StagesInOrder ==
    \A r \in Reqs :
        /\ IsPrefix(stages[r], StageOrder)
        /\ Len(stages[r]) \in StagesAt(r)
        /\ failed[r] # "none" => pc[r] = "done" /\ Len(stages[r]) < Len(StageOrder)

\* one request has run through all six stages, another is in the middle
C7_Witness ==
    \E r, q \in Reqs :
        /\ stages[r] = StageOrder
        /\ pc[q] = "waiting"

C14_TopLevelTripHandledAsWrapped ==
    \A r \in Reqs :
        tripAt[r] \in {"wrapper", "top"} =>
            /\ failed[r] # "trip-read"
            /\ "cover-attempted" \in Range(stages[r])
            /\ pc[r] = "done" => Len(responses[r]) = 1

\* ------------------------------------------------------------------------
\* Properties of the itinerary
\* ------------------------------------------------------------------------
\* x may stand before y in a day group: by timestamp, an event without one
\* after those with one, and by input index where the timestamps do not decide
EventBefore(x, y) ==
    \/ x.ts.t = "number" /\ y.ts.t = "number" /\ x.ts.n < y.ts.n
    \/ x.ts.t = "number" /\ y.ts.t = "null"
    \/ /\ x.ts = y.ts
       /\ x.uploadIndex < y.uploadIndex

\* the calendar day (Asia/Tokyo) of the events of a dated group
DayOfGroup(g) == JstDay(g.list[1].ts.n)

\* C9: the day groups are in strictly ascending date order with the group
\* of the events without a day last, and the events of a group are in
\* ascending timestamp order, equal or missing timestamps by input index.
C9_GroupsAndEventsOrdered ==
    docPc = "returned" =>
        LET g == doc.itinerary
        IN  /\ \A i, j \in 1..Len(g) :
                 i < j =>
                    /\ g[i].key # UnknownDay
                    /\ g[j].key # UnknownDay => DayOfGroup(g[i]) < DayOfGroup(g[j])
            /\ \A i \in 1..Len(g) :
                 \A a, b \in 1..Len(g[i].list) :
                    a < b => EventBefore(g[i].list[a], g[i].list[b])

\* the first image has no day and its group is emitted last, after a day
\* group whose two events were uploaded in the reverse order of their times
C9_Witness ==
    /\ docPc = "returned"
    /\ Len(doc.itinerary) = 2
    /\ doc.itinerary[2].key = UnknownDay
    /\ doc.itinerary[2].list[1].uploadIndex = 0
    /\ Len(doc.itinerary[1].list) = 2
    /\ doc.itinerary[1].list[1].uploadIndex > doc.itinerary[1].list[2].uploadIndex

\* an image record with no parseable dateTime and with a placeName that is
\* absent, not a string or blank (both fields as get resolves them)
NoTimeNoPlace(entry) ==
    LET rawDt        == get(EntryProps(entry), "dateTime")
        rawPlaceName == get(EntryProps(entry), "placeName")
    IN  /\ \/ Nullish(rawDt)
           \/ rawDt.t = "string" /\ rawDt.s \notin DOMAIN ValidDates
        /\ \/ rawPlaceName.t # "string"
           \/ Trim(rawPlaceName.s) = ""

\* C10: an image record with no parseable dateTime and no non-blank string
\* placeName is in no day group of the itinerary.
C10_NoTimeNoPlaceNeverEmitted ==
    docPc = "returned" =>
        \A i \in 1..Len(ImagesMeta(json)) :
            NoTimeNoPlace(ImagesMeta(json)[i]) =>
                \A g \in 1..Len(doc.itinerary) :
                    \A a \in 1..Len(doc.itinerary[g].list) :
                        doc.itinerary[g].list[a].uploadIndex # i - 1

\* such a record stands between two records that are emitted
C10_Witness ==
    /\ docPc = "returned"
    /\ Len(ImagesMeta(json)) = 3
    /\ NoTimeNoPlace(ImagesMeta(json)[2])
    /\ get(EntryProps(ImagesMeta(json)[2]), "placeName") = Str(" ")
    /\ Len(doc.itinerary) = 2

\* ------------------------------------------------------------------------
\* Properties of the budget
\* ------------------------------------------------------------------------
\* the entries of the allowance list of json
AllowanceItems ==
    LET allowanceArr == get(TripOf(json), "allowance")
    IN  IF allowanceArr.t = "array" THEN allowanceArr.items ELSE << >>

\* a category with a title and a total that is not null (or undefined)
HasTitleAndTotal(a) ==
    /\ Truthy(get(PropsOf(a), "title"))
    /\ ~Nullish(get(PropsOf(a), "total"))

\* the sum of Number(total) || 0 over a list of categories
RECURSIVE SumOfTotals(_)
SumOfTotals(categories) ==
    IF categories = << >> THEN 0
    ELSE NumberOrZero(get(PropsOf(Head(categories)), "total"))
         + SumOfTotals(Tail(categories))

\* C11: the grand total is the sum of Number(total) || 0 over exactly the
\* categories with a title and a non-null total, and the budget rows are
\* those categories in input order, a non-numeric total included.
C11_TotalIsSumOverKeptCategories ==
    docPc = "returned" =>
        LET kept == SelectSeq(AllowanceItems, HasTitleAndTotal)
        IN  /\ doc.total = SumOfTotals(kept)
            /\ Len(doc.budgetRows) = Len(kept)
            /\ \A j \in 1..Len(kept) :
                 /\ doc.budgetRows[j].title = get(PropsOf(kept[j]), "title")
                 /\ doc.budgetRows[j].totalVal = get(PropsOf(kept[j]), "total")

\* a category without a title that has a numeric total is followed by a
\* category with a non-numeric total: one row, and neither adds to the total
C11_Witness ==
    /\ docPc = "returned"
    /\ Len(AllowanceItems) = 2
    /\ ~HasTitleAndTotal(AllowanceItems[1])
    /\ NumberOrZero(get(PropsOf(AllowanceItems[1]), "total")) = 500
    /\ Len(doc.budgetRows) = 1
    /\ doc.budgetRows[1].totalVal = Str("abc")
    /\ doc.total = 0

\* the detail lines of a category
DetailItems(a) ==
    LET detailsArr == get(PropsOf(a), "details")
    IN  IF detailsArr.t = "array" THEN detailsArr.items ELSE << >>

\* a detail line with a name and an amount that is not null
WellFormedLine(d) ==
    /\ Truthy(get(PropsOf(d), "name"))
    /\ ~Nullish(get(PropsOf(d), "amount"))

\* C12: the row of a category shows exactly its detail lines that have a
\* name and a non-null amount, and every category with a title and a
\* non-null total has its row whatever its detail lines are.
C12_MalformedLinesDroppedCategoryKept ==
    docPc = "returned" =>
        LET kept == SelectSeq(AllowanceItems, HasTitleAndTotal)
        IN  /\ Len(doc.budgetRows) = Len(kept)
            /\ \A j \in 1..Len(kept) :
                 LET good == SelectSeq(DetailItems(kept[j]), WellFormedLine)
                     shown == doc.budgetRows[j].details
                 IN  /\ Len(shown) = Len(good)
                     /\ \A k \in 1..Len(good) :
                          /\ shown[k].name = get(PropsOf(good[k]), "name")
                          /\ shown[k].amount = get(PropsOf(good[k]), "amount")

\* a category all of whose four lines are malformed has its row, with no
\* line in it, next to a category that shows one line of its three
C12_Witness ==
    /\ docPc = "returned"
    /\ Len(doc.budgetRows) = 2
    /\ \E j, k \in 1..2 :
        /\ Len(DetailItems(AllowanceItems[j])) = 4
        /\ doc.budgetRows[j].details = << >>
        /\ Len(DetailItems(AllowanceItems[k])) = 3
        /\ Len(doc.budgetRows[k].details) = 1

\* ------------------------------------------------------------------------
\* Properties of the whole document
\* ------------------------------------------------------------------------
\* C13: generateHtmlFromJson returns markup for every input, whatever
\* entries of its lists are malformed; it never throws.
C13_NeverThrows == docPc # "threw"

\* ------------------------------------------------------------------------
\* Properties of the roster
\* ------------------------------------------------------------------------
\* the entries of the roster of json
MemberItems ==
    LET membersArr == get(TripOf(json), "members")
    IN  IF membersArr.t = "array" THEN membersArr.items ELSE << >>

\* the role tag of a member with the blanks around it removed; "" when the
\* member has none
RoleTag(m) ==
    LET rawRole == get(PropsOf(m), "role")
    IN  IF rawRole.t = "string" THEN Trim(rawRole.s) ELSE ""

\* the members that are shown: those with a name
NamedMembers == SelectSeq(MemberItems, LAMBDA m : Truthy(get(PropsOf(m), "name")))

\* C15: when no member of the roster has a role tag, the first row of the
\* roster is labeled leader and every other row member.
C15_UnlabeledRosterFirstIsLeader ==
    (docPc = "returned" /\ \A i \in 1..Len(MemberItems) : RoleTag(MemberItems[i]) = "")
        => /\ Len(doc.membersRows) = Len(NamedMembers)
           /\ \A j \in 1..Len(doc.membersRows) :
                /\ doc.membersRows[j].name = get(PropsOf(NamedMembers[j]), "name")
                /\ doc.membersRows[j].roleJp =
                       IF j = 1 THEN Str(Leader) ELSE Str(Member)

\* a roster of three named members without a role tag (absent, blank, null)
C15_Witness ==
    /\ docPc = "returned"
    /\ Len(MemberItems) = 3
    /\ Len(doc.membersRows) = 3
    /\ \A i \in 1..3 : RoleTag(MemberItems[i]) = ""
    /\ Cardinality({ get(PropsOf(MemberItems[i]), "role") : i \in 1..3 }) = 3
    /\ doc.membersRows[1].roleJp = Str(Leader)

\* C16: when some member has a recognized role tag, every row shows the
\* label of its member's tag if the tag is recognized and member otherwise.
C16_LabeledRosterByTag ==
    (docPc = "returned"
       /\ \E i \in 1..Len(NamedMembers) : RoleTag(NamedMembers[i]) \in DOMAIN roleMap)
        => /\ Len(doc.membersRows) = Len(NamedMembers)
           /\ \A j \in 1..Len(doc.membersRows) :
                doc.membersRows[j].roleJp =
                    IF RoleTag(NamedMembers[j]) \in DOMAIN roleMap
                    THEN Str(roleMap[RoleTag(NamedMembers[j])])
                    ELSE Str(Member)

\* ------------------------------------------------------------------------
\* Properties of the date range, the sections and the place names
\* ------------------------------------------------------------------------
\* the calendar date (Asia/Tokyo) of the date field key of the trip
DateOfField(key) ==
    CivilFromDays(JstDay(toValidDate(get(TripOf(json), key)).n))

\* startDate and endDate are both valid dates
TwoValidDates ==
    /\ Truthy(toValidDate(get(TripOf(json), "startDate")))
    /\ Truthy(toValidDate(get(TripOf(json), "endDate")))

\* C17: for two valid dates the end of the range is shown as day and
\* weekday exactly when start and end are in the same month of the same
\* year, and with its month otherwise.
C17_EndAbbreviatedIffSameCalendarMonth ==
    (docPc = "returned" /\ TwoValidDates) =>
        LET sameCalendarMonth ==
                /\ DateOfField("startDate").year = DateOfField("endDate").year
                /\ DateOfField("startDate").month = DateOfField("endDate").month
        IN  /\ doc.scheduleText.finish.shown \in {"day", "month-day"}
            /\ doc.scheduleText.finish.shown = "day" <=> sameCalendarMonth

\* the data shown under a heading is there
HeadingHasBody(h) ==
    CASE h = HeadingSchedule  -> NonEmpty(doc.scheduleText)
      [] h = HeadingRoster    -> doc.membersRows # << >>
      [] h = HeadingPurpose   -> Truthy(doc.purpose)
      [] h = HeadingHotels    -> NonEmpty(doc.hotels)
      [] h = HeadingBudget    -> doc.budgetRows # << >>
      [] h = HeadingItinerary -> doc.itinerary # << >>

\* C18: every heading of the document has a body: each of the six headings
\* is emitted only when the data shown under it is not empty.
C18_NoHeadingWithoutBody ==
    docPc = "returned" =>
        \A i \in 1..Len(doc.headings) : HeadingHasBody(doc.headings[i])

\* the place name of an image record is absent, null, empty or blank
BlankOrMissingPlace(entry) ==
    LET rawPlaceName == get(EntryProps(entry), "placeName")
    IN  \/ Nullish(rawPlaceName)
        \/ rawPlaceName.t = "string" /\ Trim(rawPlaceName.s) = ""

\* C19: every event of the itinerary whose image record has a missing or
\* blank place name shows the placeholder place name.
C19_BlankPlaceShowsPlaceholder ==
    docPc = "returned" =>
        \A g \in 1..Len(doc.itinerary) :
            \A a \in 1..Len(doc.itinerary[g].list) :
                LET ev == doc.itinerary[g].list[a]
                IN  BlankOrMissingPlace(ImagesMeta(json)[ev.uploadIndex + 1])
                        => ev.placeName = Str(PlaceUnknown)

\* C20: the markup depends on each of the arguments of the call: a call
\* with another cover image, another inferred itinerary or another narrative
\* text returns another document.
C20_DocumentDependsOnAllArguments ==
    docPc = "returned" =>
        \A other \in CallArgs :
            other # callArgs =>
                CallGenerateHtml(json, other.base64Image, other.intineraryData,
                                 other.impressionText) # doc

\* ------------------------------------------------------------------------
\* Properties of the pages of htmlToPdf
\* ------------------------------------------------------------------------
\* the requests whose page is open
PageOpen == { r \in Reqs : page[r] \in {"loading", "printing", "closing"} }

C22_LateCoverOutcomeDiscarded ==
    [][\A r \in Reqs :
          /\ (winner[r] # "timer" /\ winner'[r] = "timer")
                => gen'[r] = "running"
          /\ (winner[r] = "timer" /\ gen[r] = "running"
                /\ gen'[r] \in {"resolved", "rejected"})
                => /\ cover' = cover
                   /\ htmlCover' = htmlCover
                   /\ failed' = failed
                   /\ responses' = responses
                   /\ pc' = pc
                   /\ stages' = stages
                   /\ pdfInFlight' = pdfInFlight
          /\ winner'[r] = "timer"
                => /\ cover'[r] = "null"
                   /\ htmlCover'[r] \in {"unbuilt", ""}
                   /\ failed'[r] # "cover"]_vars

\* a generator rejected after its timer had won, and the request answered
\* with the document
C22_Witness ==
    \E r \in Reqs :
        /\ winner[r] = "timer"
        /\ gen[r] = "rejected"
        /\ responses[r] = << "pdf" >>
        /\ htmlCover[r] = ""

\* ------------------------------------------------------------------------
\* Properties of the field resolver
\* ------------------------------------------------------------------------
\* the keys get looks up, in its order
LookupOrder(key) == << key, key \o "!", StripMarker(key) >>

\* the first of the keys that the object has, 0 when it has none of them
FirstPresent(obj, key) ==
    IF \E i \in 1..3 : LookupOrder(key)[i] \in DOMAIN obj
    THEN CHOOSE i \in 1..3 :
            /\ LookupOrder(key)[i] \in DOMAIN obj
            /\ \A j \in 1..(i - 1) : LookupOrder(key)[j] \notin DOMAIN obj
    ELSE 0

\* the first of the keys under which the object has a value other than null
\* and undefined, 0 when there is none
FirstValued(obj, key) ==
    IF \E i \in 1..3 : ~Nullish(Prop(obj, LookupOrder(key)[i]))
    THEN CHOOSE i \in 1..3 :
            /\ ~Nullish(Prop(obj, LookupOrder(key)[i]))
            /\ \A j \in 1..(i - 1) : Nullish(Prop(obj, LookupOrder(key)[j]))
    ELSE 0

\* C23 as stated: get returns the value under the first of exact key, marked
\* key, stripped key that the object has, undefined when it has none of
\* them, and leaves the object as it was.
C23_FirstPresentKeyWins ==
    getCall.pc = "returned" =>
        /\ getCall.result =
              IF FirstPresent(getCall.obj, getCall.key) = 0 THEN Undefined
              ELSE getCall.obj[LookupOrder(getCall.key)[
                       FirstPresent(getCall.obj, getCall.key)]]
        /\ getCall.obj = getCall.before

\* C23 amended: get returns the value under the first of exact key, marked
\* key, stripped key that holds something other than null and undefined;
\* when none does it returns what the stripped key holds, which is undefined
\* when none of the keys is present; it leaves the object as it was.
C23_FirstValuedKeyWins ==
    getCall.pc = "returned" =>
        /\ getCall.result =
              IF FirstValued(getCall.obj, getCall.key) = 0
              THEN Prop(getCall.obj, LookupOrder(getCall.key)[3])
              ELSE getCall.obj[LookupOrder(getCall.key)[
                       FirstValued(getCall.obj, getCall.key)]]
        /\ (\A i \in 1..3 : LookupOrder(getCall.key)[i] \notin DOMAIN getCall.obj)
              => getCall.result = Undefined
        /\ getCall.obj = getCall.before

\* the exact key holds null and the marked key a string: the string is
\* returned
C23_Witness ==
    /\ getCall.pc = "returned"
    /\ getCall.key = "placeName"
    /\ "placeName" \in DOMAIN getCall.obj
    /\ getCall.obj["placeName"] = Null
    /\ "placeName!" \in DOMAIN getCall.obj
    /\ getCall.obj["placeName!"] = Str("Kyoto")
    /\ getCall.result = Str("Kyoto")

\* ------------------------------------------------------------------------
\* Properties of the day groups
\* ------------------------------------------------------------------------
\* the places of the itinerary, group and position, that show image record i
PlacesOf(i) ==
    { p \in { << g, a >> : g \in 1..Len(doc.itinerary), a \in 1..MaxImages + 1 } :
        /\ p[2] <= Len(doc.itinerary[p[1]].list)
        /\ doc.itinerary[p[1]].list[p[2]].uploadIndex = i - 1 }

\* the dateTime of an image record parses
Timestamped(entry) == HasTime(get(EntryProps(entry), "dateTime"))

\* C25: every image record that is kept (its dateTime is a string that
\* parses, or its placeName a non-blank string) is shown at exactly one place of exactly one
\* day group; the events of a dated group all have a timestamp and those of
\* the unknown-day group have none.
C25_KeptEventInOneGroupByTimestamp ==
    docPc = "returned" =>
        /\ \A i \in 1..Len(ImagesMeta(json)) :
              IsKept(ImagesMeta(json)[i]) => Cardinality(PlacesOf(i)) = 1
        /\ \A g \in 1..Len(doc.itinerary) :
              \A a \in 1..Len(doc.itinerary[g].list) :
                  LET ev == doc.itinerary[g].list[a]
                  IN  IF doc.itinerary[g].key = UnknownDay
                      THEN /\ ev.ts = Null
                           /\ ~Timestamped(ImagesMeta(json)[ev.uploadIndex + 1])
                      ELSE /\ ev.ts.t = "number"
                           /\ Timestamped(ImagesMeta(json)[ev.uploadIndex + 1])

\* three kept records: two with a timestamp of the same day, one with a
\* place only
C25_Witness ==
    /\ docPc = "returned"
    /\ Len(ImagesMeta(json)) = 3
    /\ \A i \in 1..3 : IsKept(ImagesMeta(json)[i])
    /\ Len(doc.itinerary) = 2
    /\ doc.itinerary[1].key # UnknownDay
    /\ Len(doc.itinerary[1].list) = 2
    /\ doc.itinerary[2].key = UnknownDay
    /\ doc.itinerary[2].list[1].ts = Null

\* ------------------------------------------------------------------------
\* Properties of a roster with unrecognized role tags only
\* ------------------------------------------------------------------------
\* C26: when some retained member has a role tag and no retained member has
\* a recognized one, nobody is leader by position: every row of the roster
\* is labeled member.
C26_UnrecognizedTagsOnlyAllMembers ==
    (docPc = "returned"
       /\ (\E i \in 1..Len(NamedMembers) : RoleTag(NamedMembers[i]) # "")
       /\ (\A k \in 1..Len(NamedMembers) :
             RoleTag(NamedMembers[k]) \notin DOMAIN roleMap))
        => /\ Len(doc.membersRows) = Len(NamedMembers)
           /\ \A j \in 1..Len(doc.membersRows) :
                doc.membersRows[j].roleJp = Str(Member)

====
